---- MODULE Spec2Model ----
(***************************************************************************)
(* The HTTP facade of the LinkedIn Puppeteer service (src/server.js): the  *)
(* process-wide throttle, the five single-task GET endpoints and the       *)
(* POST /queue task runner, over the extraction collaborator of            *)
(* src/scraper.js (createBrowser, the five scrape operations,              *)
(* browser.close).                                                         *)
(*                                                                         *)
(* JavaScript runs one handler at a time and switches handlers only at an  *)
(* await.  Each action below is the code of one handler between two        *)
(* awaits: from the arrival of a request, or the completion of the awaited *)
(* promise (the throttle's timer, createBrowser, a scrape operation,       *)
(* browser.close), up to the next await or the end of the handler.         *)
(* Time is the value of Date.now(), in milliseconds.                       *)
(*                                                                         *)
(* Spec, SpecConcurrent and SpecDegenerate take a scrape operation as one  *)
(* step that returns or throws.  SpecLogin and SpecExtract follow it       *)
(* through src/scraper.js: newPage, ensureLogin over the Session Store,    *)
(* the target page, and the filter and cap of what page.evaluate returns.  *)
(* SpecFlag does so for all five endpoints and every login flag.           *)
(* SpecThrottle has concurrent callers of throttle() under fair timers,    *)
(* SpecDisconnect a client that closes the connection of its POST /queue.  *)
(***************************************************************************)
EXTENDS Integers, Sequences, FiniteSets, TLC

\* ------------------------------------------------------------ bounds
NReq == 2        \* clients, each with at most one request in flight
MaxTasks == 2    \* longest task list of a POST /queue body
Horizon == 4     \* how long after its start the server is watched
MaxLate == 1     \* setTimeout fires at most this long after its delay
StartTime == 4   \* Date.now() when the server starts (far from lastRun = 0)

MaxTime == StartTime + Horizon

\* ------------------------------------------------------------ inputs
Types == {"profile", "profile_posts", "company", "company_posts", "jobs_company"}

\* what a task's `type` may hold: the five kinds, or anything else
TaskTypes == Types \cup {"bogus"}

Urls == {"u1", "u2"}

\* a url query parameter that is absent (undefined) or empty: both are falsy
NoUrl == {"undefined", ""}

Reqs == 1..NReq

Task(ty, u) == [type |-> ty, url |-> u]

\* the queue handler copies a task's url and never looks at it: every type
\* with one url, and a known and an unknown type with another
Tasks ==
    {Task(ty, "u1") : ty \in TaskTypes} \cup {Task(ty, "u2") : ty \in {"profile", "bogus"}}

RECURSIVE SeqsUpTo(_, _)
SeqsUpTo(S, n) ==
    IF n = 0 THEN {<<>>}
    ELSE LET shorter == SeqsUpTo(S, n - 1)
         IN  shorter \cup {Append(s, x) : s \in {t \in shorter : Len(t) = n - 1}, x \in S}

\* body.tasks of a POST /queue: absent, not an array, or an array of tasks
TasksInputs ==
    {[given |-> g, items |-> <<>>] : g \in {"undefined", "not_array"}}
    \cup {[given |-> "array", items |-> s] : s \in SeqsUpTo(Tasks, MaxTasks)}

\* body.stream of a POST /queue
StreamInputs == {"undefined", "true", "false"}

\* process.env.RATE_MIN_MS / RATE_MAX_MS as the server is started; an
\* environment variable is <<>> when unset and <<n>> when set to n
RateConfigs == {[min |-> <<2>>, max |-> <<3>>]}

\* process.env.LINKEDIN_EMAIL / LINKEDIN_PASSWORD: unset, empty or set
Credentials == {"undefined", "", "set"}

\* mutant: a variable that is set counts, be it empty
TruthyIfSet(v) == v # "undefined"

\* a value of process.env that JavaScript takes for true
Truthy(v) == v \notin {"undefined", ""}

\* what the Session Store holds under the Redis key or in the cookies file:
\* nothing, text that is no non-empty JSON array, or the cookies saved
\* earlier, after this start ("session": of a page that was logged in,
\* "anonymous": of a page that was not) or before it ("old")
Blobs == {"none", "garbage", "old", "session", "anonymous"}

VARIABLES
    now,        \* Date.now()
    env,        \* process.env: RATE_MIN_MS, RATE_MAX_MS, LINKEDIN_EMAIL,
                \* LINKEDIN_PASSWORD, REDIS_REST (URL and TOKEN are both set)
    lastRun,    \* server.js: let lastRun = 0
    runs,       \* history: the last two values written to lastRun, in order
    req,        \* per client: its request's handler (locals, position, response)
    page,       \* scraper.js: the page of the scrape operation that was called last
    store       \* the Session Store: the Redis key and the cookies file

vars == <<now, env, lastRun, runs, req, page, store>>

\* ------------------------------------------------------------ state
\* a client that has sent nothing yet
Idle ==
    [pc |-> "idle",          \* idle, delay, launch, scrape, close, done, escaped
     route |-> "none",       \* "get" or "queue"
     stream |-> FALSE,       \* queue: the effective `stream`
     tasks |-> <<>>,         \* queue: body.tasks; get: the one task of the endpoint
     idx |-> 0,              \* the task the handler is at (1-based)
     deadline |-> 0,         \* when the throttle's timer is due
     called |-> 0,           \* history: when the throttle() that set the timer was called
     wait |-> 0,             \* history: the `wait` of the throttle() called last, until
                             \* the handler's step after that throttle() returned
     browser |-> "none",     \* the handler's `browser`: none, open, closed, close_failed
     out |-> "undefined",    \* the handler's `out` (queue) or `result` / `data` (get)
     status |-> 0,           \* HTTP status sent (0: none yet)
     body |-> "none",        \* body sent by res.json
     lines |-> <<>>,         \* lines written by res.write
     ended |-> FALSE,        \* res.end() was called
     sent |-> 0,             \* how many times a complete response was sent
     gone |-> FALSE,         \* the client has closed the connection
     log |-> <<>>]           \* history: <<operation, task index>> in call order

\* no scrape operation has been called yet
NoPage ==
    [pc |-> "none",          \* where the scrape operation is
     op |-> "none",          \* the scrape operation
     task |-> 0,             \* history: the task of the handler it was called for
     flag |-> [given |-> "undefined", n |-> 0],    \* req.query.login, or t.login
     login |-> FALSE,        \* the scrape operation's `login`
     cookies |-> "none",     \* what page.setCookie was given
     at |-> "blank",         \* what the page shows: blank, feed, login, target
     onLogin |-> "undefined",    \* ensureLogin's `onLogin`, once it is taken
     trail |-> <<>>,         \* history: what was done with the page, in order
     store0 |-> [redis |-> "none", file |-> "none"],   \* history: the store at the call
     days |-> <<>>,          \* the scrape operation's `days`: <<n>>, or <<>> for NaN
     cutoff |-> <<>>,        \* dayjs().subtract(days, 'day'): <<t>>, or <<>> if invalid
     items |-> <<>>,         \* what page.evaluate returned
     result |-> <<>>]        \* the items or jobs of the returned record

\* the environment without credentials and without Redis
NoLogin == [email |-> "undefined", password |-> "undefined", redis |-> FALSE]

EmptyStore == [redis |-> "none", file |-> "none"]

\* the server has started at time t0 with the rates of c, the credentials and
\* Redis setting of l and the Session Store holding st
StartedWith(t0, c, l, st) ==
    /\ now = t0
    /\ env = [RATE_MIN_MS |-> c.min, RATE_MAX_MS |-> c.max,
              LINKEDIN_EMAIL |-> l.email, LINKEDIN_PASSWORD |-> l.password,
              REDIS_REST |-> l.redis]
    /\ lastRun = 0
    /\ runs = <<>>
    /\ req = [r \in Reqs |-> Idle]
    /\ page = NoPage
    /\ store = st

\* the server has started at time t0 with the rates of c
Started(t0, c) == StartedWith(t0, c, NoLogin, EmptyStore)

Init == \E c \in RateConfigs : Started(StartTime, c)

\* ------------------------------------------------------------ throttle
DefaultMinMs == 1200
DefaultMaxMs == 2500

\* Number(process.env.X || dflt)
EnvNumber(v, dflt) == IF v = <<>> THEN dflt ELSE v[1]

RateMin == EnvNumber(env.RATE_MIN_MS, DefaultMinMs)
RateMax == EnvNumber(env.RATE_MAX_MS, DefaultMaxMs)

\* mutant: the draw starts one below min
WaitChoicesFromBelowMin == (RateMin - 1)..RateMax

\* Math.floor(Math.random() * (max - min + 1)) + min, for Math.random() in [0, 1)
WaitChoices == RateMin..RateMax

Logged(rec, op) == [rec EXCEPT !.log = Append(@, <<op, rec.idx>>)]

CurTask(rec) == rec.tasks[rec.idx]

MissingUrlBody(ty) ==
    IF ty = "jobs_company" THEN "Missing ?url (company page)" ELSE "Missing ?url"

\* mutant: the url check is missing
GetAfterThrottleUnchecked(rec) == [Logged(rec, "createBrowser") EXCEPT !.pc = "launch"]

\* a GET handler once `await throttle()` has returned: the url check, then
\* createBrowser() is called and awaited
GetAfterThrottle(rec) ==
    IF CurTask(rec).url \in NoUrl
    THEN [rec EXCEPT !.pc = "done", !.status = 400,
                     !.body = MissingUrlBody(CurTask(rec).type), !.sent = @ + 1]
    ELSE [Logged(rec, "createBrowser") EXCEPT !.pc = "launch"]

\* the queue loop once `await throttle()` has returned: createBrowser() is
\* called and awaited
QueueAfterThrottle(rec) == [Logged(rec, "createBrowser") EXCEPT !.pc = "launch"]

AfterThrottle(rec) ==
    IF rec.route = "get" THEN GetAfterThrottle(rec) ELSE QueueAfterThrottle(rec)

\* mutant: the caller goes on and lastRun is left as it was
ReleaseUnrecorded(r, rec) ==
    /\ UNCHANGED <<lastRun, runs>>
    /\ req' = [req EXCEPT ![r] = AfterThrottle(rec)]

\* lastRun = Date.now(), and the caller goes on
Release(r, rec) ==
    /\ lastRun' = now
    /\ runs' = IF runs = <<>> THEN <<now>> ELSE <<runs[Len(runs)], now>>
    /\ req' = [req EXCEPT ![r] = AfterThrottle(rec)]

\* mutant: delay(wait - elapsed - 1)
ThrottleShort(r, rec, wait) ==
    LET called == [Logged(rec, "throttle") EXCEPT !.wait = wait]
        elapsed == now - lastRun
    IN  IF elapsed < wait
        THEN /\ req' = [req EXCEPT ![r] =
                        [called EXCEPT !.pc = "delay", !.called = now,
                                       !.deadline = now + (wait - elapsed) - 1]]
             /\ UNCHANGED <<lastRun, runs>>
        ELSE Release(r, called)

\* throttle() called by request r, whose record is rec, drawing `wait`
Throttle(r, rec, wait) ==
    LET called == [Logged(rec, "throttle") EXCEPT !.wait = wait]
        elapsed == now - lastRun
    IN  IF elapsed < wait
        THEN /\ req' = [req EXCEPT ![r] =
                        [called EXCEPT !.pc = "delay", !.called = now,
                                       !.deadline = now + (wait - elapsed)]]
             /\ UNCHANGED <<lastRun, runs>>
        ELSE Release(r, called)

\* the timer of delay(wait - elapsed) fires: throttle() resumes
ThrottleWake(r) ==
    /\ req[r].pc = "delay"
    /\ now >= req[r].deadline
    /\ Release(r, [req[r] EXCEPT !.deadline = 0, !.called = 0])
    /\ UNCHANGED <<now, env, page, store>>

\* time passes while some handler awaits (only differences of Date.now()
\* matter, so the clock stands still while the server has nothing to do); a
\* due timer fires at most MaxLate after its delay
TickUntil(end) ==
    /\ now < end
    /\ \E r \in Reqs : req[r].pc \in {"delay", "launch", "scrape", "close"}
    /\ \A r \in Reqs : req[r].pc = "delay" => now + 1 <= req[r].deadline + MaxLate
    /\ now' = now + 1
    /\ UNCHANGED <<env, lastRun, runs, req, page, store>>

Tick == TickUntil(MaxTime)

\* ------------------------------------------------------------ collaborator
\* the scrape operation each endpoint and each queue type calls
ScrapeOp(ty) ==
    CASE ty = "profile" -> "scrapeProfile"
      [] ty = "profile_posts" -> "scrapeProfilePosts"
      [] ty = "company" -> "scrapeCompany"
      [] ty = "company_posts" -> "scrapeCompanyPosts"
      [] ty = "jobs_company" -> "scrapeCompanyJobs"

ScrapeOps == {ScrapeOp(ty) : ty \in Types}

\* { error: 'captcha_or_challenge', url: page.url() }
Sentinel == "captcha_or_challenge"

\* what a scrape operation may return: its record, or (scrapeProfile and
\* scrapeCompany only) the sentinel
ScrapeReturns(ty) ==
    IF ty \in {"profile", "company"} THEN {"record", Sentinel} ELSE {"record"}

\* what a scrape operation may throw (login, navigation timeout, evaluation)
ScrapeThrows == {"Error"}

\* ------------------------------------------------------------ envelopes
\* { ok: true, type: t.type, url: t.url, result: out }
Payload(t, out) == [ok |-> TRUE, type |-> t.type, url |-> t.url, result |-> out, error |-> "none"]

\* { ok: false, type: t.type, url: t.url, error: String(e) }
Err(t, e) == [ok |-> FALSE, type |-> t.type, url |-> t.url, result |-> "none", error |-> e]

\* mutant: the envelope is kept for the final response and not written
EmitNothing(rec, x) == rec

\* if (stream) res.write(JSON.stringify(x) + '\n'); the first write sends the
\* headers, with status 200
Emit(rec, x) ==
    IF rec.stream THEN [rec EXCEPT !.lines = Append(@, x), !.status = 200] ELSE rec

\* mutant: close() at the end of the try block instead of in finally, so
\* that a GET whose scrape operation threw is over without it
CallCloseInTry(rec) ==
    IF rec.route = "get" /\ rec.status = 500
    THEN [rec EXCEPT !.pc = "done"]
    ELSE [Logged(rec, "close") EXCEPT !.pc = "close"]

\* mutant: close() is called and not awaited, so that the queue loop is at
\* the createBrowser of its next task while the browser is still open
CallCloseUnawaited(rec) ==
    IF rec.route = "queue" /\ rec.idx < Len(rec.tasks)
    THEN [Logged(rec, "close") EXCEPT !.idx = @ + 1, !.pc = "launch"]
    ELSE [Logged(rec, "close") EXCEPT !.pc = "close"]

\* finally { try { await browser.close(); } catch {} }: close() is called
CallClose(rec) == [Logged(rec, "close") EXCEPT !.pc = "close"]

\* ------------------------------------------------------------ GET endpoints
\* client r has no request in flight
CanSend(r) == req[r].pc = "idle"

\* the handler of r's request is over (it returned, or its rejection left
\* it): the server keeps listening and r may send its next request
Over(r) ==
    /\ req[r].pc \in {"done", "escaped"}
    /\ req' = [req EXCEPT ![r] = Idle]
    /\ UNCHANGED <<now, env, lastRun, runs, page, store>>

\* app.get('/<ty>'), up to its first await that suspends
GetArrive(r, ty, u, wait) ==
    /\ CanSend(r)
    /\ Throttle(r, [Idle EXCEPT !.route = "get", !.tasks = <<Task(ty, u)>>, !.idx = 1], wait)
    /\ UNCHANGED <<now, env, page, store>>

\* ------------------------------------------------------------ POST /queue
\* const { stream = true, tasks = [] } = req.body || {}
EffectiveStream(s) == s \in {"undefined", "true"}

\* !Array.isArray(tasks) || tasks.length === 0
BadTasks(ts) == ts.given # "array" \/ Len(ts.items) = 0

\* after the loop: if (stream) return res.end(); return res.json({ ok: true })
QueueFinish(rec) ==
    IF rec.stream
    THEN [rec EXCEPT !.pc = "done", !.ended = TRUE, !.sent = @ + 1]
    ELSE [rec EXCEPT !.pc = "done", !.status = 200, !.body = "ok_true", !.sent = @ + 1]

\* the body of the 400 of POST /queue
ProvideTasksBody == "Provide tasks"

\* mutant: throttle() is passed before the task list is looked at, as in the
\* GET handlers
QueueArriveThrottled(r, s, ts, wait) ==
    /\ CanSend(r)
    /\ IF BadTasks(ts)
       THEN /\ req' = [req EXCEPT ![r] =
                       [Idle EXCEPT !.route = "queue", !.pc = "done", !.status = 400,
                                    !.body = ProvideTasksBody, !.sent = 1]]
            /\ lastRun' = now
            /\ runs' = IF runs = <<>> THEN <<now>> ELSE <<runs[Len(runs)], now>>
       ELSE Throttle(r, [Idle EXCEPT !.route = "queue", !.stream = EffectiveStream(s),
                                     !.tasks = ts.items, !.idx = 1], wait)
    /\ UNCHANGED <<now, env, page, store>>

\* app.post('/queue'), up to its first await that suspends
QueueArrive(r, s, ts, wait) ==
    /\ CanSend(r)
    /\ IF BadTasks(ts)
       THEN /\ req' = [req EXCEPT ![r] =
                       [Idle EXCEPT !.route = "queue", !.pc = "done", !.status = 400,
                                    !.body = ProvideTasksBody, !.sent = 1]]
            /\ UNCHANGED <<lastRun, runs>>
       ELSE Throttle(r, [Idle EXCEPT !.route = "queue", !.stream = EffectiveStream(s),
                                     !.tasks = ts.items, !.idx = 1], wait)
    /\ UNCHANGED <<now, env, page, store>>

\* ------------------------------------------------------------ after createBrowser
\* the type dispatch of the queue loop, inside try
QueueDispatch(rec) ==
    LET t == CurTask(rec)
    IN  IF t.type \in Types
        THEN [Logged(rec, ScrapeOp(t.type)) EXCEPT !.pc = "scrape"]
        ELSE CallClose(Emit([rec EXCEPT !.out = "unknown_type"], Payload(t, "unknown_type")))

\* puppeteer.launch resolves: `browser` is set and the try block is entered
LaunchOk(r) ==
    /\ req[r].pc = "launch"
    /\ LET rec == [Logged(req[r], "browser") EXCEPT !.browser = "open", !.wait = 0]
       IN  req' = [req EXCEPT ![r] =
                   IF rec.route = "get"
                   THEN [Logged(rec, ScrapeOp(CurTask(rec).type)) EXCEPT !.pc = "scrape"]
                   ELSE QueueDispatch(rec)]
    /\ UNCHANGED <<now, env, lastRun, runs, page, store>>

\* puppeteer.launch rejects: `await createBrowser()` is outside the try, so
\* the rejection leaves the handler; nothing is sent
LaunchFail(r) ==
    /\ req[r].pc = "launch"
    /\ req' = [req EXCEPT ![r] =
                [Logged(req[r], "launch_failed") EXCEPT !.pc = "escaped", !.wait = 0]]
    /\ UNCHANGED <<now, env, lastRun, runs, page, store>>

\* ------------------------------------------------------------ after the scrape
\* GET: res.json(result), or catch: res.status(500).json({ error: String(e) })
GetRespond(rec, ok, x) ==
    IF ok
    THEN [rec EXCEPT !.status = 200, !.body = x, !.sent = @ + 1]
    ELSE [rec EXCEPT !.status = 500, !.body = x, !.sent = @ + 1]

\* queue: the payload line, or catch: the err line; without stream the
\* payload is only attached to out, and the err only assigned to out
QueueRespond(rec, ok, x) ==
    IF ok
    THEN Emit(rec, Payload(CurTask(rec), x))
    ELSE Emit([rec EXCEPT !.out = IF rec.stream THEN @ ELSE "err"], Err(CurTask(rec), x))

\* mutant: a result carrying an error marker is handled as a failure
RespondCheckingResult(rec, ok, x) ==
    IF rec.route = "get"
    THEN GetRespond(rec, ok /\ x # Sentinel, x)
    ELSE QueueRespond(rec, ok /\ x # Sentinel, x)

Respond(rec, ok, x) ==
    IF rec.route = "get" THEN GetRespond(rec, ok, x) ELSE QueueRespond(rec, ok, x)

\* the handler whose scrape operation returned x: the response or line, then
\* finally
Returned(rec, x) == CallClose(Respond([rec EXCEPT !.out = x], TRUE, x))

\* the handler whose scrape operation threw e: catch, then finally
Threw(rec, e) == CallClose(Respond(Logged(rec, "threw"), FALSE, e))

\* the scrape operation returns x
ScrapeReturn(r, x) ==
    /\ req[r].pc = "scrape"
    /\ x \in ScrapeReturns(CurTask(req[r]).type)
    /\ req' = [req EXCEPT ![r] = Returned(req[r], x)]
    /\ UNCHANGED <<now, env, lastRun, runs, page, store>>

\* the scrape operation throws e
ScrapeThrow(r, e) ==
    /\ req[r].pc = "scrape"
    /\ req' = [req EXCEPT ![r] = Threw(req[r], e)]
    /\ UNCHANGED <<now, env, lastRun, runs, page, store>>

\* ------------------------------------------------------------ after close
\* browser.close() resolves, or rejects and the rejection is swallowed; a GET
\* handler is over, the queue loop goes to its next task (whose `out` is a
\* new variable) or finishes
CloseDone(r, closed, wait) ==
    /\ req[r].pc = "close"
    /\ LET rec == [req[r] EXCEPT !.browser = IF closed THEN "closed" ELSE "close_failed"]
       IN  IF rec.route = "get"
           THEN /\ req' = [req EXCEPT ![r] = [rec EXCEPT !.pc = "done"]]
                /\ UNCHANGED <<lastRun, runs>>
           ELSE IF rec.idx < Len(rec.tasks)
                THEN Throttle(r, [rec EXCEPT !.idx = @ + 1, !.out = "undefined"], wait)
                ELSE /\ req' = [req EXCEPT ![r] = QueueFinish(rec)]
                     /\ UNCHANGED <<lastRun, runs>>
    /\ UNCHANGED <<now, env, page, store>>

\* ------------------------------------------------------------ specification
\* what the clients in C do, sending GET requests for the types in tys and
\* POST /queue requests with the task lists in tls; the handlers share only
\* lastRun and the clock
Handle(C, tys, tls) ==
    \/ \E r \in C :
          /\ CanSend(r)
          /\ \E ty \in tys, u \in Urls \cup NoUrl, w \in WaitChoices : GetArrive(r, ty, u, w)
    \/ \E r \in C :
          /\ CanSend(r)
          /\ \E s \in StreamInputs, ts \in tls, w \in WaitChoices : QueueArrive(r, s, ts, w)
    \/ \E r \in C : ThrottleWake(r)
    \/ \E r \in C : LaunchOk(r)
    \/ \E r \in C : LaunchFail(r)
    \/ \E r \in C :
          /\ req[r].pc = "close"
          /\ \E c \in BOOLEAN, w \in WaitChoices : CloseDone(r, c, w)
    \/ \E r \in C : Over(r)

\* the scrape operation that was called comes to its end, one way or another
Outcome(C) ==
    \/ \E r \in C, x \in {"record", Sentinel} : ScrapeReturn(r, x)
    \/ \E r \in C, e \in ScrapeThrows : ScrapeThrow(r, e)

Serve(C, tys, tls) == Handle(C, tys, tls) \/ Outcome(C)

\* one client, which sends a request once its previous one is over
Next == Serve({1}, Types, TasksInputs) \/ Tick

Spec == Init /\ [][Next]_vars

\* NReq clients whose requests are in flight together: GET /profile with and
\* without url, and a queue of two tasks
ConcurrentLists ==
    {[given |-> "array", items |-> <<Task("jobs_company", "u1"), Task("bogus", "u2")>>]}

NextConcurrent == Serve(Reqs, {"profile"}, ConcurrentLists) \/ Tick

SpecConcurrent == Init /\ [][NextConcurrent]_vars

\* RATE_MIN_MS = RATE_MAX_MS = 1000, and one client that calls throttle()
\* again as soon as it has returned: its GET requests carry no url, so that
\* each handler is over when its throttle() returns, and it sends the next
\* request at once (the clock stands still while nothing is awaited)
Rounds == 2      \* the delays that are watched

DegenerateConfig == [min |-> <<1000>>, max |-> <<1000>>]

DegenerateStart == StartTime + DegenerateConfig.max[1]

InitDegenerate == Started(DegenerateStart, DegenerateConfig)

NextDegenerate ==
    \/ /\ CanSend(1)
       /\ \E ty \in Types, u \in NoUrl, w \in WaitChoices : GetArrive(1, ty, u, w)
    \/ ThrottleWake(1)
    \/ Over(1)
    \/ TickUntil(DegenerateStart + Rounds * (RateMax + MaxLate))

SpecDegenerate == InitDegenerate /\ [][NextDegenerate]_vars

\* the client of r closes the connection while its POST /queue is being
\* handled: the handler listens to no 'close' or 'aborted' event and never
\* looks at the socket, and a res.write, res.end or res.json on a closed
\* connection throws nothing, so that its steps are what they were
Disconnect(r) ==
    /\ req[r].route = "queue"
    /\ req[r].pc \in {"delay", "launch", "scrape", "close"}
    /\ ~req[r].gone
    /\ req' = [req EXCEPT ![r].gone = TRUE]
    /\ UNCHANGED <<now, env, lastRun, runs, page, store>>

\* one client sends POST /queue requests of two tasks and may close the
\* connection at any moment of their handling
DisconnectLists ==
    {[given |-> "array", items |-> <<Task(ty, "u1"), Task("profile", "u2")>>] :
        ty \in {"company", "bogus"}}

NextDisconnect ==
    \/ /\ CanSend(1)
       /\ \E s \in StreamInputs, ts \in DisconnectLists, w \in WaitChoices :
             QueueArrive(1, s, ts, w)
    \/ Disconnect(1)
    \/ ThrottleWake(1)
    \/ LaunchOk(1)
    \/ LaunchFail(1)
    \/ \E x \in {"record", Sentinel} : ScrapeReturn(1, x)
    \/ \E e \in ScrapeThrows : ScrapeThrow(1, e)
    \/ /\ req[1].pc = "close"
       /\ \E c \in BOOLEAN, w \in WaitChoices : CloseDone(1, c, w)
    \/ Over(1)
    \/ Tick

SpecDisconnect == Init /\ [][NextDisconnect]_vars

\* NReq clients that call throttle() whenever they like while the server is
\* watched, two calls overlapping or not: their GET requests carry no url, so
\* that a handler is its throttle() and the 400.  A timer that was set fires:
\* time passes while a call sleeps, and a call whose timer is due resumes.
TickWhileAsleep ==
    /\ \E r \in Reqs : req[r].pc = "delay"
    /\ \A r \in Reqs : req[r].pc = "delay" => now + 1 <= req[r].deadline + MaxLate
    /\ now' = now + 1
    /\ UNCHANGED <<env, lastRun, runs, req, page, store>>

NextThrottle ==
    \/ \E r \in Reqs :
          /\ CanSend(r) /\ now < MaxTime
          /\ \E w \in WaitChoices : GetArrive(r, "profile", "undefined", w)
    \/ \E r \in Reqs : ThrottleWake(r)
    \/ \E r \in Reqs : Over(r)
    \/ TickWhileAsleep

SpecThrottle ==
    /\ Init /\ [][NextThrottle]_vars
    /\ WF_vars(TickWhileAsleep)
    /\ \A r \in Reqs : WF_vars(ThrottleWake(r))

\* ------------------------------------------------------------ scraper.js
\* a login flag: absent, or the string or the number of n
NoFlag == [given |-> "undefined", n |-> 0]

StringFlag(n) == [given |-> "string", n |-> n]

NumberFlag(n) == [given |-> "number", n |-> n]

\* req.query.login of a GET request, which is a string when it is there:
\* absent, '0' or '1'
QueryFlags == {NoFlag, StringFlag(0), StringFlag(1)}

\* t.login of a task of a JSON body: absent, 0, 1 or "1"
TaskFlags == {NoFlag, NumberFlag(0), NumberFlag(1), StringFlag(1)}

LoginFlags(route) == IF route = "queue" THEN TaskFlags ELSE QueryFlags

\* mutant: the flag is compared with ==, which converts a string to a number
LoginArgLoose(route, flag) ==
    \/ flag.given # "undefined" /\ flag.n = 1
    \/ Truthy(env.LINKEDIN_EMAIL)

\* GET: const login = req.query.login === '1' || Boolean(process.env.LINKEDIN_EMAIL)
\* queue: const login = t.login === 1 || Boolean(process.env.LINKEDIN_EMAIL)
LoginArg(route, flag) ==
    \/ flag = IF route = "queue" THEN NumberFlag(1) ELSE StringFlag(1)
    \/ Truthy(env.LINKEDIN_EMAIL)

DefaultDays == 30

\* the length of a day on the model's clock
DayLength == 2

\* req.query.days of a GET request, t.days of a queue task: absent, text that
\* is no number, or a number
DaysInputs ==
    {[given |-> g, n |-> 0] : g \in {"undefined", "junk"}}
    \cup {[given |-> "number", n |-> n] : n \in {0, 1}}

\* GET: Number(req.query.days || 30), where the string '0' is truthy;
\* queue: t.days || 30, where the number 0 is not; NaN is <<>>
DaysArg(route, d) ==
    CASE d.given = "undefined" -> <<DefaultDays>>
      [] d.given = "junk" -> <<>>
      [] d.given = "number" -> IF route = "queue" /\ d.n = 0 THEN <<DefaultDays>> ELSE <<d.n>>

PostsOps == {"scrapeProfilePosts", "scrapeCompanyPosts"}

Step(p, what) == [p EXCEPT !.trail = Append(@, what)]

Trailed(p, what) == \E k \in DOMAIN p.trail : p.trail[k] = what

\* the scrape operation goes on to page.goto of its target
GotoTarget(p) == [Step(p, "goto_target") EXCEPT !.pc = "target"]

\* the handler of r calls its scrape operation, with the login flag and the
\* days its request carries (the handler read them before createBrowser and
\* only hands them on): newPage, then ensureLogin if `login`
ScrapeBegin(r, flag, d) ==
    /\ req[r].pc = "scrape"
    /\ page.pc \in {"none", "returned", "threw"}
    /\ LET p == [NoPage EXCEPT !.op = ScrapeOp(CurTask(req[r]).type), !.task = req[r].idx,
                               !.flag = flag, !.login = LoginArg(req[r].route, flag),
                               !.days = DaysArg(req[r].route, d),
                               !.store0 = store, !.trail = <<"newPage">>]
       IN  page' = IF p.login
                   THEN [Step(p, "ensureLogin") EXCEPT !.pc = "loadCookies"]
                   ELSE GotoTarget(p)
    /\ UNCHANGED <<now, env, lastRun, runs, req, store>>

\* a blob that parses to a non-empty array of cookies
Usable(b) == b \notin {"none", "garbage"}

\* redisGet: null without REDIS_REST_URL / TOKEN or when the answer is not ok
\* (a fetch that rejects is caught by loadCookies), else the text stored
RedisGet(up) == IF env.REDIS_REST /\ up THEN store.redis ELSE "none"

\* loadCookies: the Redis blob if it is usable, else the file's, else nothing
Loaded(up) ==
    IF Usable(RedisGet(up)) THEN RedisGet(up)
    ELSE IF Usable(store.file) THEN store.file ELSE "none"

\* ensureLogin: loadCookies, then page.goto of the feed is awaited
LoadCookies(r, up) ==
    /\ req[r].pc = "scrape" /\ page.pc = "loadCookies"
    /\ page' = [Step(Step(page, "loadCookies"), "goto_feed") EXCEPT
                   !.cookies = Loaded(up), !.pc = "feed"]
    /\ UNCHANGED <<now, env, lastRun, runs, req, store>>

\* the scrape operation, its page being p, throws e: the handler catches it
PageThrows(r, p, e) ==
    /\ page' = [p EXCEPT !.pc = "threw"]
    /\ req' = [req EXCEPT ![r] = Threw(req[r], e)]

\* the scrape operation, its page being p, returns x to the handler
PageReturns(r, p, x) ==
    /\ page' = [p EXCEPT !.pc = "returned"]
    /\ req' = [req EXCEPT ![r] = Returned(req[r], x)]

\* mutant: saveCookies is called whether a login was made or not
FeedLoadedSaving(r, wall) ==
    /\ req[r].pc = "scrape" /\ page.pc = "feed"
    /\ page' = [Step([page EXCEPT !.at = "feed",
                                  !.onLogin = IF wall THEN "true" ELSE "false"],
                     "saveCookies") EXCEPT !.pc = "save"]
    /\ UNCHANGED <<now, env, lastRun, runs, req, store>>

\* the feed has loaded, showing the login wall or not: ensureLogin returns,
\* throws for want of credentials, or types them and submits
FeedLoaded(r, wall) ==
    /\ req[r].pc = "scrape" /\ page.pc = "feed"
    /\ IF ~wall
       THEN /\ page' = GotoTarget([page EXCEPT !.at = "feed", !.onLogin = "false"])
            /\ UNCHANGED req
       ELSE IF ~Truthy(env.LINKEDIN_EMAIL) \/ ~Truthy(env.LINKEDIN_PASSWORD)
            THEN PageThrows(r, [page EXCEPT !.at = "login", !.onLogin = "true"],
                            "Missing LINKEDIN_EMAIL / LINKEDIN_PASSWORD and no valid cookies")
            ELSE /\ page' = [Step(Step(Step([page EXCEPT !.at = "login", !.onLogin = "true"],
                                  "type_username"), "type_password"), "submit")
                                 EXCEPT !.pc = "submit"]
                 /\ UNCHANGED req
    /\ UNCHANGED <<now, env, lastRun, runs, store>>

\* a page.goto (of the feed, of the target) rejects, or the click does
NavigationFails(r) ==
    /\ req[r].pc = "scrape" /\ page.pc \in {"feed", "submit", "target"}
    /\ PageThrows(r, page, "Error")
    /\ UNCHANGED <<now, env, lastRun, runs, store>>

\* what became of the submitted form: the feed, the login wall again, or no
\* navigation at all (waitForNavigation rejects, which is swallowed)
SubmitOutcomes == {"feed", "login", "no_navigation"}

\* Promise.all([click, waitForNavigation.catch]) and sleep(1000) are over:
\* saveCookies is called, whatever the page shows
Submitted(r, o) ==
    /\ req[r].pc = "scrape" /\ page.pc = "submit"
    /\ page' = [Step(Step(page, IF o = "no_navigation" THEN "navigation_failed" ELSE "navigated"),
                     "saveCookies")
                  EXCEPT !.at = IF o = "feed" THEN "feed" ELSE "login", !.pc = "save"]
    /\ UNCHANGED <<now, env, lastRun, runs, req, store>>

\* JSON.stringify(await page.cookies())
CookiesOf(p) == IF p.at = "feed" THEN "session" ELSE "anonymous"

\* how redisSet ends: the answer is ok, is not ok, or fetch rejects
RedisOutcomes == {"ok", "not_ok", "rejects"}

\* saveCookies: redisSet if Redis is configured, then writeFileSync; a fetch
\* that rejects skips the file, and every failure is swallowed
Saved(p, o, fileOk) ==
    [redis |-> IF env.REDIS_REST /\ o = "ok" THEN CookiesOf(p) ELSE store.redis,
     file |-> IF fileOk /\ ~(env.REDIS_REST /\ o = "rejects") THEN CookiesOf(p) ELSE store.file]

\* saveCookies is over: ensureLogin returns
SaveCookies(r, o, fileOk) ==
    /\ req[r].pc = "scrape" /\ page.pc = "save"
    /\ store' = Saved(page, o, fileOk)
    /\ page' = GotoTarget(page)
    /\ UNCHANGED <<now, env, lastRun, runs, req>>

\* ------------------------------------------------------------ extraction
\* dayjs().subtract(days, 'day'), invalid when days is NaN
Cutoff(days) == IF days = <<>> THEN <<>> ELSE <<now - days[1] * DayLength>>

\* the target has loaded: scrapeProfile and scrapeCompany return the sentinel
\* if it looks like a challenge and their record if not; the posts and jobs
\* operations take the cutoff (posts) and await page.evaluate
TargetLoaded(r, captcha) ==
    /\ req[r].pc = "scrape" /\ page.pc = "target"
    /\ LET p == [page EXCEPT !.at = "target"]
       IN  IF p.op \in {"scrapeProfile", "scrapeCompany"}
           THEN PageReturns(r, p, IF captcha THEN Sentinel ELSE "record")
           ELSE /\ page' = [Step(p, "evaluate") EXCEPT
                              !.pc = "evaluate",
                              !.cutoff = IF p.op \in PostsOps THEN Cutoff(p.days) ELSE <<>>]
                /\ UNCHANGED req
    /\ UNCHANGED <<now, env, lastRun, runs, store>>

\* a post as page.evaluate returns it: timeRaw is null, '' or a text, which
\* dayjs either parses to the time `time` or finds invalid
Undated == {[timeRaw |-> raw, valid |-> FALSE, time |-> 0] : raw \in {"null", "", "text"}}

Dated(t) == [timeRaw |-> "text", valid |-> TRUE, time |-> t]

\* parsed.isAfter(cutoff): false when the cutoff is invalid
IsAfter(t, cutoff) == cutoff # <<>> /\ t > cutoff[1]

\* mutant: isAfter(cutoff) || isSame(cutoff)
KeepFromCutoff(it, cutoff) ==
    IF it.timeRaw \in {"null", ""} THEN TRUE
    ELSE IF it.valid THEN cutoff # <<>> /\ it.time >= cutoff[1] ELSE TRUE

\* the callback of items.filter
Keep(it, cutoff) ==
    IF it.timeRaw \in {"null", ""} THEN TRUE
    ELSE IF it.valid THEN IsAfter(it.time, cutoff) ELSE TRUE

\* items.filter(...)
Filtered(items, cutoff) ==
    LET Test(it) == Keep(it, cutoff)
    IN  SelectSeq(items, Test)

JobsCap == 50

\* mutant: slice(0, 51)
CappedOneLate(cards) ==
    LET kept == SubSeq(cards, 1, IF Len(cards) < JobsCap + 1 THEN Len(cards) ELSE JobsCap + 1)
    IN  [i \in DOMAIN kept |-> [of |-> kept[i]]]

\* cards.slice(0, 50).map(...): a job holds what was picked from its card
Capped(cards) ==
    LET kept == SubSeq(cards, 1, IF Len(cards) < JobsCap THEN Len(cards) ELSE JobsCap)
    IN  [i \in DOMAIN kept |-> [of |-> kept[i]]]

\* page.evaluate has returned the nodes of the page: the posts operations
\* filter them, scrapeCompanyJobs has capped them; page.close and return
Evaluated(r, nodes) ==
    /\ req[r].pc = "scrape" /\ page.pc = "evaluate"
    /\ PageReturns(r, [page EXCEPT !.items = nodes,
                                   !.result = IF page.op \in PostsOps
                                              THEN Filtered(nodes, page.cutoff)
                                              ELSE Capped(nodes)],
                   "record")
    /\ UNCHANGED <<now, env, lastRun, runs, store>>

\* ------------------------------------------------------------ the login flow
\* one client sends one request, whose scrape operations are followed step
\* by step: GET /profile, or a queue of a profile and a company_posts task
LoginConfigs == [email : Credentials, password : Credentials, redis : BOOLEAN]

Stores == [redis : {"none", "garbage", "old"}, file : {"none", "old"}]

InitLogin ==
    \E c \in RateConfigs, l \in LoginConfigs, st \in Stores : StartedWith(StartTime, c, l, st)

LoginLists ==
    {[given |-> "array", items |-> <<Task("profile", "u1"), Task("company_posts", "u1")>>]}

NoDays == [given |-> "undefined", n |-> 0]

NextLogin ==
    \/ /\ CanSend(1)
       /\ \E w \in WaitChoices : GetArrive(1, "profile", "u1", w)
    \/ /\ CanSend(1)
       /\ \E s \in StreamInputs, ts \in LoginLists, w \in WaitChoices : QueueArrive(1, s, ts, w)
    \/ ThrottleWake(1)
    \/ LaunchOk(1)
    \/ LaunchFail(1)
    \/ /\ req[1].pc = "close"
       /\ \E c \in BOOLEAN, w \in WaitChoices : CloseDone(1, c, w)
    \/ \E flag \in LoginFlags(req[1].route) : ScrapeBegin(1, flag, NoDays)
    \/ \E up \in BOOLEAN : LoadCookies(1, up)
    \/ \E wall \in BOOLEAN : FeedLoaded(1, wall)
    \/ NavigationFails(1)
    \/ \E o \in SubmitOutcomes : Submitted(1, o)
    \/ \E o \in RedisOutcomes, fileOk \in BOOLEAN : SaveCookies(1, o, fileOk)
    \/ \E captcha \in BOOLEAN : TargetLoaded(1, captcha)
    \/ Evaluated(1, <<>>)
    \/ Tick

SpecLogin == InitLogin /\ [][NextLogin]_vars

\* ------------------------------------------------------------ the login flag
\* one client sends one request, to any of the five GET endpoints or a queue
\* of two tasks, the first of any type, with any login flag and
\* LINKEDIN_EMAIL unset, empty or set
FlagConfigs == {[email |-> e, password |-> "set", redis |-> FALSE] : e \in Credentials}

InitFlag ==
    \E c \in RateConfigs, l \in FlagConfigs : StartedWith(StartTime, c, l, EmptyStore)

FlagLists ==
    {[given |-> "array", items |-> <<Task(ty, "u1"), Task("jobs_company", "u1")>>] : ty \in Types}

NextFlag ==
    \/ /\ CanSend(1)
       /\ \E ty \in Types, w \in WaitChoices : GetArrive(1, ty, "u1", w)
    \/ /\ CanSend(1)
       /\ \E ts \in FlagLists, w \in WaitChoices : QueueArrive(1, "true", ts, w)
    \/ ThrottleWake(1)
    \/ LaunchOk(1)
    \/ LaunchFail(1)
    \/ /\ req[1].pc = "close"
       /\ \E c \in BOOLEAN, w \in WaitChoices : CloseDone(1, c, w)
    \/ \E flag \in LoginFlags(req[1].route) : ScrapeBegin(1, flag, NoDays)
    \/ LoadCookies(1, TRUE)
    \/ \E wall \in BOOLEAN : FeedLoaded(1, wall)
    \/ NavigationFails(1)
    \/ \E o \in SubmitOutcomes : Submitted(1, o)
    \/ SaveCookies(1, "ok", TRUE)
    \/ \E captcha \in BOOLEAN : TargetLoaded(1, captcha)
    \/ Evaluated(1, <<>>)
    \/ Tick

SpecFlag == InitFlag /\ [][NextFlag]_vars

\* ------------------------------------------------------------ the extraction
\* one client sends one request for posts or jobs, without login (the first
\* throttle() of a server never waits); the page holds up to MaxItems posts,
\* dated around the cutoff or not dated, or up to MaxCards job cards
MaxItems == 3
MaxCards == 52

ExtractTypes == {"profile_posts", "company_posts", "jobs_company"}

ExtractLists == {[given |-> "array", items |-> <<Task(ty, "u1")>>] : ty \in ExtractTypes}

PostsNear(c) == Undated \cup {Dated(t) : t \in {c - 1, c, c + 1}}

Nodes(p) ==
    IF p.op \in PostsOps
    THEN SeqsUpTo(PostsNear(IF p.cutoff = <<>> THEN now ELSE p.cutoff[1]), MaxItems)
    ELSE {[i \in 1..n |-> [id |-> i]] : n \in 0..MaxCards}

NextExtract ==
    \/ /\ CanSend(1)
       /\ \E ty \in ExtractTypes, w \in WaitChoices : GetArrive(1, ty, "u1", w)
    \/ /\ CanSend(1)
       /\ \E ts \in ExtractLists, w \in WaitChoices : QueueArrive(1, "true", ts, w)
    \/ LaunchOk(1)
    \/ LaunchFail(1)
    \/ /\ req[1].pc = "close"
       /\ \E c \in BOOLEAN, w \in WaitChoices : CloseDone(1, c, w)
    \/ \E d \in DaysInputs : ScrapeBegin(1, NoFlag, d)
    \/ TargetLoaded(1, FALSE)
    \/ NavigationFails(1)
    \/ /\ page.pc = "evaluate"
       /\ \E nodes \in Nodes(page) : Evaluated(1, nodes)
    \/ Tick

SpecExtract == Init /\ [][NextExtract]_vars

\* ------------------------------------------------------------ reading the history
\* operation op was called for task i of the request
Did(rec, op, i) == \E k \in DOMAIN rec.log : rec.log[k] = <<op, i>>

HowOften(rec, op, i) == Cardinality({k \in DOMAIN rec.log : rec.log[k] = <<op, i>>})

Scraped(rec, i) == \E op \in ScrapeOps : Did(rec, op, i)

\* the handler is over: it returned, or a rejection left it
Finished(rec) == rec.pc \in {"done", "escaped"}

\* the handler has left task i behind
Past(rec, i) == Finished(rec) \/ rec.idx > i

Streamed(rec) == rec.route = "queue" /\ rec.stream /\ Len(rec.tasks) >= 1

\* ------------------------------------------------------------ C1
\* C1: a POST /queue with stream=true and N >= 1 tasks gets exactly N lines
\* before the response is ended, line i carrying the type and url of task i.
\* Stated of a handler that is over: the response was ended after N lines.
C1_StreamWritesOneLinePerTask ==
    \A r \in Reqs :
        Streamed(req[r]) /\ Finished(req[r]) =>
            /\ req[r].ended
            /\ Len(req[r].lines) = Len(req[r].tasks)
            /\ \A i \in DOMAIN req[r].lines :
                   /\ req[r].lines[i].type = req[r].tasks[i].type
                   /\ req[r].lines[i].url = req[r].tasks[i].url

\* ------------------------------------------------------------ C2
\* C2: in POST /queue, the envelope of a task whose type is none of the five
\* has ok = false and error = "unknown_type".
C2_UnknownTypeIsNotOk ==
    \A r \in Reqs :
        Streamed(req[r]) =>
            \A i \in DOMAIN req[r].lines :
                req[r].tasks[i].type \notin Types =>
                    /\ req[r].lines[i].ok = FALSE
                    /\ req[r].lines[i].error = "unknown_type"

\* ------------------------------------------------------------ C3
\* C3: in POST /queue, no scrape operation is called for a task of an
\* unrecognized type, and the tasks after it are still processed: once the
\* handler is over, the throttle was entered for the next task.
C3_UnknownTypeSkipsCollaborator ==
    \A r \in Reqs :
        req[r].route = "queue" =>
            \A i \in DOMAIN req[r].tasks :
                req[r].tasks[i].type \notin Types /\ Did(req[r], "throttle", i) =>
                    /\ ~Scraped(req[r], i)
                    /\ Finished(req[r]) /\ i < Len(req[r].tasks)
                          => Did(req[r], "throttle", i + 1)

\* ------------------------------------------------------------ C4
\* C4: a GET request with a missing or empty url is answered 400 with the
\* endpoint's error body; createBrowser is never called and no scrape
\* operation is invoked for it.
C4_MissingUrlIs400 ==
    \A r \in Reqs :
        req[r].route = "get" /\ req[r].tasks[1].url \in NoUrl =>
            /\ ~Did(req[r], "createBrowser", 1)
            /\ ~Scraped(req[r], 1)
            /\ req[r].browser = "none"
            /\ req[r].pc \in {"delay", "done"}
            /\ req[r].pc = "done" =>
                  /\ req[r].status = 400
                  /\ req[r].body = MissingUrlBody(req[r].tasks[1].type)
                  /\ req[r].sent = 1

\* a request without url was held by the throttle and then answered 400
C4_Witness ==
    \E r \in Reqs :
        /\ req[r].route = "get" /\ req[r].tasks[1].url \in NoUrl
        /\ req[r].pc = "done" /\ req[r].status = 400
        /\ Len(runs) = 2 /\ runs[2] > runs[1]

\* ------------------------------------------------------------ C5
\* C5: whatever the interleaving of the handlers that call throttle(), two
\* consecutive values written to lastRun are at least RATE_MIN_MS apart.
C5_RunsAreSpaced == Len(runs) = 2 => runs[2] - runs[1] >= RateMin

\* ------------------------------------------------------------ C6
\* the timer of r's throttle() fires, and that throttle() had been called
\* as soon as the one before it returned, which is when lastRun was written
WakesAfterImmediateCall(r) ==
    /\ req[r].pc = "delay" /\ req'[r].pc # "delay"
    /\ runs # <<>> /\ req[r].called = lastRun

Degenerate == RateMin = 1000 /\ RateMax = 1000

\* C6: with RATE_MIN_MS = RATE_MAX_MS = 1000 and every throttle() called as
\* soon as the one before it returned, consecutive values written to lastRun
\* differ by exactly 1000.
C6_ExactlyOneSecondApart ==
    [][\A r \in Reqs : Degenerate /\ WakesAfterImmediateCall(r) => lastRun' - lastRun = 1000]_vars

\* C6 as amended: they differ by at least 1000, and by exactly 1000 when the
\* timer fires when it is due.
C6_AtLeastOneSecondApart ==
    [][\A r \in Reqs :
          Degenerate /\ WakesAfterImmediateCall(r) =>
              /\ lastRun' - lastRun >= 1000
              /\ now = req[r].deadline => lastRun' - lastRun = 1000]_vars

\* two consecutive writes of lastRun exactly 1000 apart, the second by a
\* throttle() called when the first was made
C6_Witness ==
    /\ Degenerate
    /\ Len(runs) = 2 /\ runs[2] - runs[1] = 1000
    /\ lastRun = runs[2] /\ now = lastRun
    /\ req[1].pc = "done" /\ req[1].status = 400

\* ------------------------------------------------------------ C7
\* C7: in POST /queue no failure of the collaborator leaves the handler: a
\* failed createBrowser or scrape operation of task i becomes the one
\* envelope of task i, with ok = false and an error message, and the tasks
\* after it are processed (a handler that is over has entered every task).
FailedAt(rec, i) == Did(rec, "launch_failed", i) \/ Did(rec, "threw", i)

C7_FailuresBecomeEnvelopes ==
    \A r \in Reqs :
        req[r].route = "queue" =>
            /\ req[r].pc # "escaped"
            /\ Finished(req[r]) => \A i \in DOMAIN req[r].tasks : Did(req[r], "throttle", i)
            /\ \A i \in DOMAIN req[r].tasks :
                   req[r].stream /\ FailedAt(req[r], i) =>
                       /\ Len(req[r].lines) >= i
                       /\ req[r].lines[i].ok = FALSE
                       /\ req[r].lines[i].error # "none"

\* ------------------------------------------------------------ C8
\* C8: browser.close() is called exactly once for every browser a handler
\* acquired, before the handler goes on to its next task or is over, whether
\* the scrape operation returned a record, returned the sentinel or threw;
\* a handler holds no open browser outside its try block; and a close that
\* throws leaves the answer as it was: the handler is not left by that
\* exception and the task keeps the one line or response it got.
Answered(rec, i) ==
    IF rec.route = "get" THEN rec.sent = 1 /\ rec.status \in {200, 500}
    ELSE rec.stream => Len(rec.lines) >= i

C8_EveryBrowserIsClosed ==
    \A r \in Reqs :
        /\ \A i \in DOMAIN req[r].tasks :
               /\ HowOften(req[r], "close", i) <= HowOften(req[r], "browser", i)
               /\ HowOften(req[r], "browser", i) <= 1
               /\ Did(req[r], "browser", i) /\ (Past(req[r], i) \/ req[r].pc = "close")
                     => HowOften(req[r], "close", i) = 1
        /\ req[r].browser = "open" => req[r].pc \in {"scrape", "close"}
        /\ req[r].pc = "escaped" => req[r].log[Len(req[r].log)][1] = "launch_failed"
        /\ req[r].browser = "close_failed" /\ req[r].pc # "escaped"
              => Answered(req[r], IF req[r].pc \in {"delay", "launch"}
                                  THEN req[r].idx - 1 ELSE req[r].idx)

\* a handler is over after a scrape operation that threw and a close that
\* threw as well
C8_Witness ==
    \E r \in Reqs :
        /\ req[r].pc = "done" /\ req[r].browser = "close_failed"
        /\ \E i \in DOMAIN req[r].tasks : Did(req[r], "threw", i) /\ Did(req[r], "close", i)

\* ------------------------------------------------------------ C9
\* C9: a GET request with a url gets exactly one response, 200 with the
\* result when the collaborator returns and 500 with the error when it
\* fails at any step.  Stated of a handler that is over.
C9_GetIsAnswered ==
    \A r \in Reqs :
        req[r].route = "get" /\ req[r].tasks[1].url \in Urls /\ Finished(req[r]) =>
            /\ req[r].sent = 1
            /\ req[r].status = IF FailedAt(req[r], 1) THEN 500 ELSE 200

\* ------------------------------------------------------------ C10
\* C10: when a scrape operation returns the sentinel
\* {error: "captcha_or_challenge"}, the task counts as a success: its queue
\* envelope has ok = true and the sentinel as result, and a GET endpoint
\* answers 200 with the sentinel as body.
C10_SentinelIsSuccess ==
    \A r \in Reqs :
        req[r].out = Sentinel =>
            IF req[r].route = "get"
            THEN /\ req[r].status = 200
                 /\ req[r].body = Sentinel
                 /\ req[r].sent = 1
            ELSE req[r].stream =>
                    /\ Len(req[r].lines) = req[r].idx
                    /\ req[r].lines[req[r].idx].ok
                    /\ req[r].lines[req[r].idx].result = Sentinel
                    /\ req[r].lines[req[r].idx].error = "none"

\* the scrape operation of the second task of a streamed queue returned the
\* sentinel, and its line has been written
C10_Witness ==
    \E r \in Reqs :
        /\ req[r].out = Sentinel
        /\ req[r].pc = "close"
        /\ Streamed(req[r]) /\ req[r].idx = 2

\* ------------------------------------------------------------ C11
\* C11: a POST /queue with stream = false and a non-empty task list gets
\* exactly one response, the bare {ok: true}: nothing is sent while the tasks
\* are processed, and once the handler is over every task has been entered,
\* the body {ok: true} was sent once with status 200 and no line was written,
\* whether tasks failed or not.
Unstreamed(rec) == rec.route = "queue" /\ ~rec.stream /\ Len(rec.tasks) >= 1

C11_UnstreamedGetsBareAck ==
    \A r \in Reqs :
        Unstreamed(req[r]) =>
            /\ req[r].lines = <<>> /\ ~req[r].ended
            /\ ~Finished(req[r]) => req[r].sent = 0 /\ req[r].status = 0
            /\ Finished(req[r]) =>
                  /\ req[r].sent = 1 /\ req[r].status = 200 /\ req[r].body = "ok_true"
                  /\ \A i \in DOMAIN req[r].tasks : Did(req[r], "throttle", i)

\* ------------------------------------------------------------ C12
\* C12: within one POST /queue request the tasks run one after the other:
\* the history is in task order, each task has at most one createBrowser and
\* one scrape operation, a task is begun (its throttle wait, its
\* createBrowser) only when the handler holds no open browser and the close
\* of every browser acquired before has been called and awaited, and a scrape
\* operation is in progress only for the current task.
InOrder(rec) ==
    \A j, k \in DOMAIN rec.log : j < k => rec.log[j][2] <= rec.log[k][2]

ScrapesOf(rec, i) ==
    Cardinality({k \in DOMAIN rec.log : rec.log[k][2] = i /\ rec.log[k][1] \in ScrapeOps})

C12_TasksRunOneAtATime ==
    \A r \in Reqs :
        req[r].route = "queue" /\ Len(req[r].tasks) >= 1 =>
            /\ InOrder(req[r])
            /\ \A i \in DOMAIN req[r].tasks :
                   /\ HowOften(req[r], "createBrowser", i) <= 1
                   /\ ScrapesOf(req[r], i) <= 1
                   /\ i > req[r].idx => ~Did(req[r], "throttle", i)
                   /\ i < req[r].idx =>
                          /\ Did(req[r], "browser", i)
                          /\ Did(req[r], "close", i)
                          /\ req[r].tasks[i].type \in Types => ScrapesOf(req[r], i) = 1
            /\ req[r].pc \in {"delay", "launch"} => req[r].browser # "open"
            /\ req[r].pc = "scrape" =>
                  /\ req[r].browser = "open"
                  /\ req[r].log[Len(req[r].log)] = <<ScrapeOp(CurTask(req[r]).type), req[r].idx>>

\* the second task of a queue waits for the throttle after the first one's
\* browser was closed
C12_Witness ==
    \E r \in Reqs :
        /\ req[r].route = "queue" /\ req[r].idx = 2 /\ req[r].pc = "delay"
        /\ req[r].browser = "closed"
        /\ Did(req[r], "scrapeProfile", 1)

\* ------------------------------------------------------------ C15
\* C15: in a streamed POST /queue the line of task i is written when its
\* envelope is produced, before task i+1 begins: while task idx waits for the
\* throttle, for its browser or for its scrape operation the lines of the
\* idx - 1 tasks before it are written, and once its browser is being closed
\* its own line is written too.
C15_LineWrittenBeforeNextTask ==
    \A r \in Reqs :
        Streamed(req[r]) =>
            /\ req[r].pc \in {"delay", "launch", "scrape", "escaped"}
                  => Len(req[r].lines) = req[r].idx - 1
            /\ req[r].pc \in {"close", "done"} => Len(req[r].lines) = req[r].idx
            /\ \A i \in DOMAIN req[r].lines : req[r].lines[i].url = req[r].tasks[i].url

\* the second task's scrape operation is in progress and the first task's
\* line is written, the response not being ended
C15_Witness ==
    \E r \in Reqs :
        /\ Streamed(req[r]) /\ req[r].idx = 2 /\ req[r].pc = "scrape"
        /\ Len(req[r].lines) = 1 /\ ~req[r].ended

\* ------------------------------------------------------------ C16
\* C16: a GET request without url is answered 400 at once: its handler never
\* waits in the throttle, and the step that receives it leaves lastRun as it
\* was.
C16_MissingUrlAnswersAtOnce ==
    [][\A r \in Reqs :
          /\ req[r].pc = "idle" /\ req'[r].route = "get"
          /\ req'[r].tasks[1].url \in NoUrl
          => /\ req'[r].pc = "done" /\ req'[r].status = 400
             /\ lastRun' = lastRun]_vars

\* ------------------------------------------------------------ C13
\* an item with a parseable timestamp that is not strictly after the cutoff
Outdated(it, cutoff) ==
    /\ it.timeRaw \notin {"null", ""} /\ it.valid
    /\ ~(cutoff # <<>> /\ it.time > cutoff[1])

\* the position in items of the k-th item that is not outdated
NthFresh(items, cutoff, k) ==
    CHOOSE i \in DOMAIN items :
        /\ ~Outdated(items[i], cutoff)
        /\ Cardinality({j \in 1..(i - 1) : ~Outdated(items[j], cutoff)}) = k - 1

\* C13: scrapeProfilePosts and scrapeCompanyPosts return the scraped items
\* without those that have a parseable timestamp not strictly after the
\* cutoff (now - days), the others all being kept, in their order; the cutoff
\* is `days` days before a time the operation has seen.
C13_PostsAreFilteredByCutoff ==
    page.pc = "returned" /\ page.op \in PostsOps =>
        /\ page.days # <<>> =>
              /\ page.cutoff # <<>>
              /\ page.cutoff[1] + page.days[1] * DayLength \in StartTime..now
        /\ \A k \in DOMAIN page.result : ~Outdated(page.result[k], page.cutoff)
        /\ Len(page.result) =
              Cardinality({i \in DOMAIN page.items : ~Outdated(page.items[i], page.cutoff)})
        /\ \A k \in DOMAIN page.result :
              page.result[k] = page.items[NthFresh(page.items, page.cutoff, k)]

\* of three posts, the first dated at the cutoff, the second not dated and
\* the third dated after the cutoff, the last two are returned
C13_Witness ==
    /\ page.pc = "returned" /\ page.op \in PostsOps /\ page.cutoff # <<>>
    /\ Len(page.items) = 3 /\ Len(page.result) = 2
    /\ page.items[1] = Dated(page.cutoff[1])
    /\ page.items[2] \in Undated
    /\ page.items[3] = Dated(page.cutoff[1] + 1)
    /\ page.result = <<page.items[2], page.items[3]>>

\* ------------------------------------------------------------ C14
\* C14: the jobs scrapeCompanyJobs returns are never more than 50, and are
\* the first min(50, number of cards) cards of the page, in page order.
C14_JobsAreCappedAtFifty ==
    page.pc = "returned" /\ page.op = "scrapeCompanyJobs" =>
        /\ Len(page.result) <= 50
        /\ Len(page.result) = IF Len(page.items) < 50 THEN Len(page.items) ELSE 50
        /\ \A i \in DOMAIN page.result : page.result[i].of = page.items[i]

\* a page of more than 50 cards, of which 50 were returned
C14_Witness ==
    /\ page.pc = "returned" /\ page.op = "scrapeCompanyJobs"
    /\ Len(page.items) > 50 /\ Len(page.result) = 50
    /\ req[1].route = "get" /\ req[1].status = 200

\* ------------------------------------------------------------ C17
\* C17: the Session Store is written only after a login that apparently
\* succeeded: a step that changes the Redis key or the cookies file is the
\* saveCookies of an ensureLogin whose submitted form led to the feed, not
\* to the login wall again and not to a failed navigation.
C17_StoreWrittenOnlyAfterLogin ==
    [][store' # store =>
          /\ page.pc = "save" /\ page.at = "feed"
          /\ ~Trailed(page, "navigation_failed")]_vars

\* ------------------------------------------------------------ C18
\* C18: when the feed does not show the login wall after loadCookies,
\* ensureLogin types nothing, submits nothing and does not call saveCookies,
\* the Session Store (Redis key and cookies file) stays as it was when the
\* scrape operation was called, and the operation goes on to its target.
C18_SufficientSessionWritesNothing ==
    page.onLogin = "false" =>
        /\ ~Trailed(page, "type_username") /\ ~Trailed(page, "type_password")
        /\ ~Trailed(page, "submit")
        /\ ~Trailed(page, "saveCookies")
        /\ store = page.store0
        /\ Trailed(page, "goto_target")
        /\ page.pc \in {"target", "evaluate", "returned", "threw"}

\* the cookies stored in Redis were loaded, the feed showed no login wall and
\* the scrape operation has returned, the store being as it was
C18_Witness ==
    /\ page.onLogin = "false" /\ page.cookies = "old" /\ page.pc = "returned"
    /\ env.REDIS_REST /\ store.redis = "old" /\ store = page.store0
    /\ page.at = "target"

\* ------------------------------------------------------------ C19
\* C19: when ensureLogin finds the login wall and LINKEDIN_EMAIL or
\* LINKEDIN_PASSWORD is missing, the scrape operation throws: nothing is
\* typed or submitted, saveCookies is not called and the store is as it was,
\* the target is never navigated to, the feed was tried once and the scrape
\* operation called once for the task, and the handler answers 500 with the
\* error (GET) or writes an ok = false line with it (streamed queue).
MissingPair ==
    \/ env.LINKEDIN_EMAIL \in {"undefined", ""}
    \/ env.LINKEDIN_PASSWORD \in {"undefined", ""}

MissingMessage == "Missing LINKEDIN_EMAIL / LINKEDIN_PASSWORD and no valid cookies"

C19_NoCredentialsFailsTheTask ==
    page.onLogin = "true" /\ MissingPair =>
        /\ page.pc = "threw"
        /\ \A k \in DOMAIN page.trail :
               page.trail[k] \in {"newPage", "ensureLogin", "loadCookies", "goto_feed"}
        /\ Cardinality({k \in DOMAIN page.trail : page.trail[k] = "goto_feed"}) = 1
        /\ store = page.store0
        /\ HowOften(req[1], page.op, page.task) = 1
        /\ Did(req[1], "threw", page.task)
        /\ IF req[1].route = "get"
           THEN /\ req[1].status = 500 /\ req[1].body = MissingMessage /\ req[1].sent = 1
           ELSE req[1].stream =>
                   /\ Len(req[1].lines) >= page.task
                   /\ req[1].lines[page.task].ok = FALSE
                   /\ req[1].lines[page.task].error = MissingMessage

\* a GET /profile with login=1 and no password configured found the login
\* wall and was answered 500
C19_Witness ==
    /\ page.onLogin = "true" /\ MissingPair /\ page.flag = StringFlag(1)
    /\ req[1].route = "get" /\ req[1].pc = "done" /\ req[1].status = 500
    /\ page.store0.file = "old" /\ store.file = "old"

\* ------------------------------------------------------------ C20
\* C20: when neither LINKEDIN_EMAIL nor LINKEDIN_PASSWORD is configured, no
\* request makes a scrape operation call ensureLogin, whatever its login
\* flag.
C20_NoCredentialsNoLoginFlow ==
    /\ env.LINKEDIN_EMAIL \in {"undefined", ""}
    /\ env.LINKEDIN_PASSWORD \in {"undefined", ""}
    => ~Trailed(page, "ensureLogin")

\* ------------------------------------------------------------ C21
\* the tasks of a request: the one of a GET request with a url, the elements
\* of the task list of a POST /queue
TasksOf(rec) ==
    IF rec.route = "get" /\ rec.tasks[1].url \in NoUrl THEN {} ELSE DOMAIN rec.tasks

\* C21: nothing is retried: for every task of a request throttle(),
\* createBrowser and a scrape operation are called at most once each; a task
\* of a recognized type whose browser was acquired has its scrape operation
\* called exactly once, also when the operation threw; and once the handler
\* is over every task has passed the throttle exactly once.
C21_EachTaskRunsOnce ==
    \A r \in Reqs :
        \A i \in TasksOf(req[r]) :
            /\ HowOften(req[r], "throttle", i) <= 1
            /\ HowOften(req[r], "createBrowser", i) <= 1
            /\ HowOften(req[r], "browser", i) <= 1
            /\ ScrapesOf(req[r], i) <= 1
            /\ HowOften(req[r], "threw", i) <= 1
            /\ Did(req[r], "threw", i) => ScrapesOf(req[r], i) = 1
            /\ Did(req[r], "browser", i) /\ req[r].tasks[i].type \in Types
                  => ScrapesOf(req[r], i) = 1
            /\ Finished(req[r]) => HowOften(req[r], "throttle", i) = 1

\* ------------------------------------------------------------ C24
\* C24: when the calls of throttle() do not overlap (one client, whose
\* handler calls throttle() for a task after the task before it is over), the
\* start time a call records is at least the `wait` that call drew, and so
\* at least RATE_MIN_MS, after the start time recorded before it.
C24_StartsAreSpacedByTheDraw ==
    \A r \in Reqs :
        req[r].wait > 0 /\ req[r].pc # "delay" /\ Len(runs) = 2 =>
            /\ lastRun = runs[2]
            /\ runs[2] - runs[1] >= req[r].wait
            /\ req[r].wait >= RateMin
            /\ runs[2] - runs[1] >= RateMin

\* the throttle() of a queue's second task drew RATE_MAX_MS, slept, and
\* recorded its start exactly that long after the first task's
C24_Witness ==
    /\ req[1].route = "queue" /\ req[1].idx = 2 /\ req[1].pc = "launch"
    /\ req[1].wait = RateMax
    /\ Len(runs) = 2 /\ runs[2] - runs[1] = RateMax

\* ------------------------------------------------------------ C22
\* this step is request r's handler calling throttle()
Calls(r) ==
    \/ req[r].pc = "idle" /\ req'[r].pc # "idle" /\ req'[r].log # <<>>
    \/ req[r].pc = "close" /\ req'[r].idx = req[r].idx + 1

\* this step is the throttle() of request r resuming from its sleep
Wakes(r) == req[r].pc = "delay" /\ req'[r].pc # "delay"

\* after this step throttle() has returned to the handler of r, which went on
\* to its next await or its end
ReturnedTo(r) == req'[r].pc \in {"launch", "done"} /\ lastRun' = now

\* C22: throttle() only delays: a call either returns in the step that made
\* it, recording lastRun = now, or sets one timer for more than 0 and at most
\* RATE_MAX_MS and leaves lastRun alone; when the timer has fired the call
\* returns, recording lastRun = now, without sleeping again; no call leaves
\* its handler by an exception; and, timers firing, every call that sleeps
\* returns, however the calls of concurrent handlers interleave.
C22_ThrottleOnlyDelays ==
    /\ [][\A r \in Reqs :
             /\ Calls(r) =>
                   IF req'[r].pc = "delay"
                   THEN /\ req'[r].deadline - now > 0
                        /\ req'[r].deadline - now <= RateMax
                        /\ lastRun' = lastRun
                   ELSE ReturnedTo(r)
             /\ Wakes(r) =>
                   /\ ReturnedTo(r)
                   /\ now >= req[r].deadline
                   /\ now - req[r].called <= RateMax + MaxLate
             /\ req'[r].pc = "escaped" => req[r].pc = "launch"]_vars
    /\ \A r \in Reqs : (req[r].pc = "delay") ~> (req[r].pc # "delay")

\* two calls slept together; the first, which had drawn RATE_MAX_MS, has
\* returned and recorded its start, the second is still asleep
C22_Witness ==
    /\ req[1].pc = "done" /\ req[1].wait = RateMax
    /\ req[2].pc = "delay" /\ req[2].called < now
    /\ Len(runs) = 2 /\ lastRun = now /\ runs[2] - runs[1] = RateMax

\* ------------------------------------------------------------ C25
\* C25: a POST /queue whose `tasks` is missing, not an array or an empty
\* array is answered in the step that receives it, with one response of
\* status 400 and the error body, and nothing else: lastRun and the clock
\* are as before (the throttle is not entered), createBrowser and the scrape
\* operations are not called, no line is written and the response is not
\* ended as a stream, and the page and the Session Store are untouched.
C25_BadTaskListIs400 ==
    [][\A r \in Reqs :
          req[r].pc = "idle" /\ req'[r].route = "queue" /\ req'[r].tasks = <<>> =>
              /\ req'[r].pc = "done"
              /\ req'[r].status = 400 /\ req'[r].body = ProvideTasksBody
              /\ req'[r].sent = 1
              /\ req'[r].log = <<>> /\ req'[r].browser = "none"
              /\ req'[r].lines = <<>> /\ ~req'[r].ended
              /\ req'[r].deadline = 0 /\ req'[r].wait = 0
              /\ lastRun' = lastRun /\ runs' = runs /\ now' = now
              /\ page' = page /\ store' = store]_vars

\* a server that has run a task before, some time ago, has answered 400 to
\* a POST /queue without tasks, lastRun being what that task recorded
C25_Witness ==
    /\ req[1].route = "queue" /\ req[1].tasks = <<>>
    /\ req[1].pc = "done" /\ req[1].status = 400
    /\ runs # <<>> /\ lastRun = runs[Len(runs)] /\ now > lastRun

\* ------------------------------------------------------------ C26
\* the login flag of the page's task is 1: the string '1' in the query of a
\* GET request, the number 1 in a queue task
FlagIsOne ==
    IF req[1].route = "get" THEN page.flag = StringFlag(1) ELSE page.flag = NumberFlag(1)

EmailConfigured == env.LINKEDIN_EMAIL \notin {"undefined", ""}

\* C26: on each of the five GET endpoints and for each task of a queue, the
\* scrape operation is called with login = true, and calls ensureLogin right
\* after newPage, exactly when the task's login flag is 1 or LINKEDIN_EMAIL
\* is configured; so with LINKEDIN_EMAIL set it does whatever the flag, 0
\* included.
C26_LoginFollowsFlagOrEmail ==
    page.pc # "none" =>
        /\ page.op = ScrapeOp(req[1].tasks[page.task].type)
        /\ page.login <=> (FlagIsOne \/ EmailConfigured)
        /\ Trailed(page, "ensureLogin") <=> (FlagIsOne \/ EmailConfigured)
        /\ Trailed(page, "ensureLogin") => page.trail[2] = "ensureLogin"
        /\ EmailConfigured => Trailed(page, "ensureLogin")

\* GET /jobs/company with login=0 and LINKEDIN_EMAIL set went through the
\* login flow and returned
C26_Witness ==
    /\ req[1].route = "get" /\ page.op = "scrapeCompanyJobs"
    /\ page.flag = StringFlag(0) /\ EmailConfigured
    /\ Trailed(page, "ensureLogin") /\ Trailed(page, "saveCookies")
    /\ page.pc = "returned" /\ req[1].status = 200

\* ------------------------------------------------------------ C23
\* C23: a POST /queue whose client has closed the connection is handled to
\* its end all the same: its tasks are taken in order, once its handler is
\* over every task of the list was entered (throttle, createBrowser) and,
\* its browser acquired and its type recognized, had its scrape operation
\* called, which returned or threw; and every browser acquired was closed
\* before the handler went on.
C23_DisconnectAbortsNothing ==
    \A r \in Reqs :
        req[r].route = "queue" /\ req[r].gone =>
            /\ InOrder(req[r])
            /\ Finished(req[r]) =>
                  \A i \in DOMAIN req[r].tasks :
                      /\ Did(req[r], "throttle", i)
                      /\ Did(req[r], "createBrowser", i)
                      /\ Did(req[r], "browser", i) /\ req[r].tasks[i].type \in Types
                            => ScrapesOf(req[r], i) = 1
            /\ \A i \in DOMAIN req[r].tasks :
                   Did(req[r], "browser", i) /\ (Past(req[r], i) \/ req[r].pc = "close")
                       => HowOften(req[r], "close", i) = 1
            /\ req[r].browser = "open" => req[r].pc \in {"scrape", "close"}

====
